---- MODULE Spec2Model ----
(***************************************************************************)
(* Model of sphinx_click/ext.py: the formatters that turn a click command  *)
(* graph into reStructuredText lines, and the ClickDirective that loads a  *)
(* command, walks its sub-commands and builds docutils nodes.              *)
(*                                                                         *)
(* A Python string is a sequence of tokens (a token is a word, " ", ",",   *)
(* "-", ...); '' is <<>>; concatenation is \o.  A list of lines is a       *)
(* sequence of such strings.  Python's None is the value None.             *)
(***************************************************************************)
EXTENDS Integers, Sequences, FiniteSets, TLC

VARIABLES
    hidden,     \* command name -> its click `hidden` attribute
    envvar,     \* parameter -> its click `envvar` attribute
    handlers,   \* event name -> what the handler connected to it does to the lines
    pc,         \* "ready" before the call, "done" once it returned or raised
    call,       \* the call made: the operation and its arguments
    returned    \* what the call produced: lines, nodes, error, events, ...

vars == <<hidden, envvar, handlers, pc, call, returned>>

\* Python's None (a value that is no string, list or command)
None == <<"None">>

NESTED_COMPLETE == <<"complete">>
NESTED_FULL == <<"full">>
NESTED_SHORT == <<"short">>
NESTED_NONE == <<"none">>

\* Bound of the model: the longest commands selection that is tried.
MaxSel == 2

(***************************************************************************)
(* Strings and lists                                                       *)
(***************************************************************************)
RECURSIVE Flatten(_)
Flatten(ss) == IF ss = <<>> THEN <<>> ELSE Head(ss) \o Flatten(Tail(ss))

RECURSIVE Join(_, _)
\* sep.join(parts)
Join(sep, parts) ==
    IF parts = <<>> THEN <<>>
    ELSE IF Len(parts) = 1 THEN parts[1]
    ELSE parts[1] \o sep \o Join(sep, Tail(parts))

RECURSIVE SplitOn(_, _)
\* s.split(sep) for a one-token separator: always at least one piece
SplitOn(s, sep) ==
    IF \A i \in 1..Len(s) : s[i] # sep THEN <<s>>
    ELSE LET k == CHOOSE i \in 1..Len(s) :
                      s[i] = sep /\ \A j \in 1..(i - 1) : s[j] # sep
         IN  <<SubSeq(s, 1, k - 1)>> \o SplitOn(SubSeq(s, k + 1, Len(s)), sep)

RECURSIVE Strip(_)
\* s.strip(): whitespace tokens removed at both ends
Strip(s) ==
    IF s = <<>> THEN s
    ELSE IF s[1] = " " THEN Strip(Tail(s))
    ELSE IF s[Len(s)] = " " THEN Strip(SubSeq(s, 1, Len(s) - 1))
    ELSE s

\* s.replace(old, new) for one-token old and new
Replace(s, old, new) == [i \in 1..Len(s) |-> IF s[i] = old THEN new ELSE s[i]]

\* the upper-case form of the words that occur as names
UpperCase ==
    [bye |-> "BYE", cli |-> "CLI", coll |-> "COLL", hello |-> "HELLO", hi |-> "HI",
     ops |-> "OPS", run |-> "RUN", world |-> "WORLD", debug |-> "DEBUG",
     name |-> "NAME", param |-> "PARAM", user |-> "USER", choice |-> "CHOICE"]

\* s.upper()
Upper(s) ==
    [i \in 1..Len(s) |-> IF s[i] \in DOMAIN UpperCase THEN UpperCase[s[i]] ELSE s[i]]

IsBlank(s) == \A i \in 1..Len(s) : s[i] = " "

\* _indent(text) for a one-line text
_indent(line) == IF IsBlank(line) THEN line ELSE <<"    ">> \o line

RECURSIVE LStrip(_, _)
\* s.lstrip(chars)
LStrip(s, chars) ==
    IF s # <<>> /\ s[1] \in chars THEN LStrip(Tail(s), chars) ELSE s

RECURSIVE RStrip(_, _)
\* s.rstrip(chars)
RStrip(s, chars) ==
    IF s # <<>> /\ s[Len(s)] \in chars
    THEN RStrip(SubSeq(s, 1, Len(s) - 1), chars) ELSE s

Range(s) == {s[i] : i \in 1..Len(s)}

(***************************************************************************)
(* The click object graph the formatters read (owned by click).            *)
(*   cli   Group: world, hello            (registered in that order)       *)
(*   hello Group: hi, bye                                                  *)
(*   ops   MultiCommand with lazily loaded commands: run                   *)
(*   coll  CommandCollection with sources ops, hello                       *)
(***************************************************************************)
Commands == {"bye", "cli", "coll", "hello", "hi", "ops", "run", "world"}

\* str ordering of the command names, as sorted(key=lambda item: item.name) sees it
NameRank ==
    [bye |-> 1, cli |-> 2, coll |-> 3, hello |-> 4, hi |-> 5, ops |-> 6,
     run |-> 7, world |-> 8]

Kind ==
    [bye |-> "Command", cli |-> "Group", coll |-> "CommandCollection",
     hello |-> "Group", hi |-> "Command", ops |-> "MultiCommand",
     run |-> "Command", world |-> "Command"]

\* click.Group.commands: the dict's keys in insertion order (a key is the command's name)
GroupCommands ==
    [bye |-> <<>>, cli |-> <<"world", "hello">>, coll |-> <<>>,
     hello |-> <<"hi", "bye">>, hi |-> <<>>, ops |-> <<>>, run |-> <<>>,
     world |-> <<>>]

\* what a custom MultiCommand.list_commands returns
LazyCommands ==
    [bye |-> <<>>, cli |-> <<>>, coll |-> <<>>, hello |-> <<>>, hi |-> <<>>,
     ops |-> <<"run">>, run |-> <<>>, world |-> <<>>]

\* click.CommandCollection.sources
Sources ==
    [bye |-> <<>>, cli |-> <<>>, coll |-> <<"ops", "hello">>, hello |-> <<>>,
     hi |-> <<>>, ops |-> <<>>, run |-> <<>>, world |-> <<>>]

\* the backspace character '\b' that click uses to mark a no-rewrap block
BS == "<\\b>"

\* the backquote character
BQ == "<backquote>"

\* command.help: a string with "\n" line breaks, or None
Help ==
    [bye |-> None,
     cli |-> <<"A sample command group.">>,
     coll |-> <<"A simple CommandCollection.">>,
     hello |-> <<"Greet.", "\n", "\n", BS, "\n", "one", "\n", "two">>,
     hi |-> <<"Say hi.">>,
     ops |-> None,
     run |-> <<"Run it.">>,
     world |-> <<"ESC[1;31m", "A world command.", "ESC[0m">>]

\* command.short_help
ShortHelp ==
    [bye |-> None, cli |-> None, coll |-> None, hello |-> None, hi |-> None,
     ops |-> <<"Operations.">>, run |-> None, world |-> None]

\* command.epilog
Epilog ==
    [bye |-> None, cli |-> None, coll |-> None, hello |-> None, hi |-> None,
     ops |-> None, run |-> None, world |-> <<"ESC[31m", "See also.", "ESC[0m">>]

\* command.params, in declaration order
CommandParams ==
    [bye |-> <<>>, cli |-> <<"debug">>, coll |-> <<>>, hello |-> <<>>,
     hi |-> <<"name", "choice">>, ops |-> <<>>, run |-> <<>>,
     world |-> <<"param", "user">>]

Params == {"choice", "debug", "name", "param", "user"}

\* show_default=True
ShowTrue == <<"<True>">>

\* the attributes of each click.Parameter other than envvar; choices is
\* type.choices when the type is a click.Choice
Param ==
    [choice |-> [kind |-> "Option", name |-> <<"choice">>,
                 opts |-> << <<"-", "-", "choice">> >>, secondary_opts |-> <<>>,
                 help |-> <<"A sample option with ", "ESC[31m", "choices", "ESC[0m">>,
                 required |-> FALSE,
                 is_flag |-> FALSE, count |-> FALSE, metavar |-> None,
                 hidden |-> FALSE, nargs |-> 1,
                 show_default |-> ShowTrue, default |-> <<"Option2">>,
                 choices |-> << <<"ESC[31m", "Option1", "ESC[0m">>, <<"Option2">> >>],
     debug |-> [kind |-> "Option", name |-> <<"debug">>,
                opts |-> << <<"-", "-", "debug">> >>, secondary_opts |-> <<>>,
                help |-> <<"Output more information.">>, required |-> FALSE,
                is_flag |-> TRUE, count |-> FALSE, metavar |-> None,
                hidden |-> FALSE, nargs |-> 1,
                show_default |-> None, default |-> None, choices |-> None],
     name |-> [kind |-> "Option", name |-> <<"name">>,
               opts |-> << <<"-", "-", "name">> >>, secondary_opts |-> <<>>,
               help |-> None, required |-> TRUE,
               is_flag |-> FALSE, count |-> FALSE, metavar |-> None,
               hidden |-> FALSE, nargs |-> 1,
               show_default |-> None, default |-> None, choices |-> None],
     param |-> [kind |-> "Option", name |-> <<"param">>,
                opts |-> << <<"-", "-", "param">> >>, secondary_opts |-> <<>>,
                help |-> <<"A sample option">>, required |-> FALSE,
                is_flag |-> FALSE, count |-> FALSE, metavar |-> <<"[", "FOO", "]">>,
                hidden |-> FALSE, nargs |-> 1,
                show_default |-> <<"Something computed at ", "ESC[31m", "runtime",
                                   "ESC[0m">>,
                default |-> None, choices |-> None],
     user |-> [kind |-> "Argument", name |-> <<"user">>,
               opts |-> << <<"user">> >>, secondary_opts |-> <<>>,
               help |-> None, required |-> TRUE,
               is_flag |-> FALSE, count |-> FALSE, metavar |-> None,
               hidden |-> FALSE, nargs |-> 1,
               show_default |-> None, default |-> None, choices |-> None]]

\* the envvar attributes as the decorators of the command module set them
DeclaredEnvvar ==
    [choice |-> None, debug |-> None, name |-> None, param |-> <<"PARAM">>,
     user |-> <<"USER">>]

\* the commands whose hidden flag the command module may set
Hideable == {"cli", "hello", "hi", "ops", "world"}

(***************************************************************************)
(* click.Context.  A context is [chain, env]: chain lists, from the root   *)
(* context down to this one, [command, info_name, auto_envvar_prefix];     *)
(* env tells whether "sphinx-click-env" is in ctx.meta (click shares the   *)
(* meta dict between a context and its parent).  parent=None is NoParent.  *)
(***************************************************************************)
NoParent == [chain |-> <<>>, env |-> FALSE]

Last(s) == s[Len(s)]

\* click.Context(command, info_name=info_name, parent=parent, auto_envvar_prefix=prefix)
Context(command, info_name, parent, prefix) ==
    LET inherited ==
            IF prefix # None THEN prefix
            ELSE IF parent.chain # <<>> /\ Last(parent.chain).auto_envvar_prefix # None
            THEN Last(parent.chain).auto_envvar_prefix \o <<"_">> \o Upper(info_name)
            ELSE None
    IN  [chain |-> Append(parent.chain,
                          [command |-> command, info_name |-> info_name,
                           auto_envvar_prefix |-> inherited]),
         env |-> parent.env]

CtxCommand(ctx) == Last(ctx.chain).command

\* ctx.parent
CtxParent(ctx) == [chain |-> SubSeq(ctx.chain, 1, Len(ctx.chain) - 1), env |-> ctx.env]

\* ctx.command_path
command_path(ctx) ==
    Join(<<" ">>, [i \in 1..Len(ctx.chain) |-> ctx.chain[i].info_name])

Truthy(s) == s # None /\ s # <<>>

\* variant of command_hidden that finds no command hidden
command_hidden_never(c) == FALSE

\* command.hidden, as the guards at the top of the formatters read it
command_hidden(c) == hidden[c]

\* ANSI_ESC_SEQ_RE: the tokens that are one whole match of \x1B\[\d+(;\d+){0,2}m
ANSI_ESC_SEQ_RE == {"ESC[0m", "ESC[31m", "ESC[1;31m", "ESC[38;5;196m"}

\* ANSI_ESC_SEQ_RE.sub('', s)
AnsiSub(s) == SelectSeq(s, LAMBDA t : t \notin ANSI_ESC_SEQ_RE)

\* s.splitlines(): the pieces between line breaks; a line break at the end
\* of s starts no further line, and the empty string has no line
splitlines(s) ==
    LET parts == SplitOn(s, "\n")
    IN  IF parts[Len(parts)] = <<>> THEN SubSeq(parts, 1, Len(parts) - 1) ELSE parts

\* statemachine.string2lines(s, tab_width=4, convert_whitespace=True): the
\* lines of s, each stripped of trailing whitespace
string2lines(s) ==
    LET lines == splitlines(s)
    IN  [i \in 1..Len(lines) |-> RStrip(lines[i], {" "})]

\* len(line) - len(line.lstrip())
Indentation(line) == Len(line) - Len(LStrip(line, {" "}))

\* the least indentation of the non-blank lines after the first; 0 without one
Margin(lines) ==
    LET indents == {Indentation(lines[i]) :
                       i \in {j \in 2..Len(lines) : ~IsBlank(lines[j])}}
    IN  IF indents = {} THEN 0
        ELSE CHOOSE m \in indents : \A n \in indents : m <= n

\* lines with the first stripped of leading whitespace and the others
\* shortened by margin at the front
Dedent(lines, margin) ==
    [i \in 1..Len(lines) |->
        IF i = 1 THEN LStrip(lines[1], {" "})
        ELSE SubSeq(lines[i], margin + 1, Len(lines[i]))]

\* inspect.cleandoc(s): the first line stripped of leading whitespace, the
\* common indentation of the non-blank lines after it removed from each of
\* them, and the empty lines at both ends dropped
cleandoc(s) ==
    CHOOSE doc \in {Join(<<"\n">>, RStrip(LStrip(dedented, {<<>>}), {<<>>})) :
                      dedented \in {Dedent(lines, Margin(lines)) :
                                       lines \in {SplitOn(s, "\n")}}} : TRUE

\* what a formatter wrapped by _process_lines hands back: its lines, the
\* events emitted on the way, and the envvar attributes as it left them
Result(lines, events, ev) == [lines |-> lines, events |-> events, envvar |-> ev]

Event(event_name, ctx) == [name |-> event_name, path |-> command_path(ctx)]

\* the events setup registers with the application; a handler can be
\* connected to these names only
RegisteredEvents ==
    {"sphinx-click-process-description", "sphinx-click-process-usage",
     "sphinx-click-process-options", "sphinx-click-process-arguments",
     "sphinx-click-process-envvars", "sphinx-click-process-epilog"}

\* what a connected handler does to the list it is handed: nothing to it
\* ("keep"), del lines[:], lines.append(...), lines[:] = [...]
HandlerKinds == {"clear", "append", "replace"}

NoHandlers == [e \in RegisteredEvents |-> "keep"]

\* the list `lines` after app.events.emit(event_name, ctx, lines)
emit(event_name, lines) ==
    IF event_name \notin RegisteredEvents \/ handlers[event_name] = "keep" THEN lines
    ELSE IF handlers[event_name] = "clear" THEN <<>>
    ELSE IF handlers[event_name] = "append" THEN Append(lines, <<"appended">>)
    ELSE << <<"replaced">> >>

\* variant of _process_lines that yields the lines as the formatter made them
_process_lines_unhandled(event_name, ctx, lines, ev) ==
    Result(lines, IF ctx.env THEN <<Event(event_name, ctx)>> ELSE <<>>, ev)

\* the process_lines wrapper: the event is emitted iff ctx.meta holds the env,
\* and the lines yielded are the list as the handlers left it
_process_lines(event_name, ctx, lines, ev) ==
    IF ctx.env
    THEN Result(emit(event_name, lines), <<Event(event_name, ctx)>>, ev)
    ELSE Result(lines, <<>>, ev)

RECURSIVE BarLoopNoReset(_, _)
\* variant of BarLoop in which an empty line leaves the bar switched on
BarLoopNoReset(lines, bar_enabled) ==
    IF lines = <<>> THEN <<>>
    ELSE LET line == Head(lines)
         IN  IF line = <<BS>> THEN BarLoopNoReset(Tail(lines), TRUE)
             ELSE <<IF bar_enabled THEN <<"| ">> \o line ELSE line>>
                  \o BarLoopNoReset(Tail(lines), bar_enabled)

RECURSIVE BarLoop(_, _)
\* the loop over the lines of a help text: a '\b' line switches the bar on and
\* is dropped, an empty line switches it off
BarLoop(lines, bar_enabled) ==
    IF lines = <<>> THEN <<>>
    ELSE LET line == Head(lines)
         IN  IF line = <<BS>> THEN BarLoop(Tail(lines), TRUE)
             ELSE LET bar == IF line = <<>> THEN FALSE ELSE bar_enabled
                  IN  <<IF bar THEN <<"| ">> \o line ELSE line>>
                      \o BarLoop(Tail(lines), bar)

_format_help(help_string) ==
    BarLoop(string2lines(cleandoc(AnsiSub(help_string))), FALSE) \o << <<>> >>

\* the function _format_description decorates: the lines it yields
_format_description_func(ctx) ==
    LET c == CtxCommand(ctx)
        help_string == IF Truthy(Help[c]) THEN Help[c] ELSE ShortHelp[c]
    IN  IF Truthy(help_string) THEN _format_help(help_string) ELSE <<>>

_format_description(ctx, ev) ==
    _process_lines("sphinx-click-process-description", ctx,
                   _format_description_func(ctx), ev)

\* command.collect_usage_pieces(ctx)
collect_usage_pieces(c) ==
    << <<"[OPTIONS]">> >>
    \o [i \in 1..Len(SelectSeq(CommandParams[c], LAMBDA p : Param[p].kind = "Argument"))
            |-> Upper(Param[SelectSeq(CommandParams[c],
                                      LAMBDA p : Param[p].kind = "Argument")[i]].name)]
    \o (IF Kind[c] = "Command" THEN <<>> ELSE << <<"COMMAND [ARGS]...">> >>)

_get_usage(ctx) ==
    command_path(ctx) \o <<" ">> \o Join(<<" ">>, collect_usage_pieces(CtxCommand(ctx)))

\* the function _format_usage decorates
_format_usage_func(ctx) ==
    << <<".. code-block:: shell">>, <<>>, _indent(_get_usage(ctx)), <<>> >>

_format_usage(ctx, ev) ==
    _process_lines("sphinx-click-process-usage", ctx, _format_usage_func(ctx), ev)

_format_command_name(ctx) == Replace(command_path(ctx), " ", "-")

RECURSIVE Dedup(_)
\* the distinct elements of a list (a set built from it), first occurrence kept
Dedup(s) ==
    IF s = <<>> THEN <<>>
    ELSE <<Head(s)>> \o Dedup(SelectSeq(Tail(s), LAMBDA x : x # Head(s)))

\* repr(s) of a string
repr(s) == <<"'">> \o s \o <<"'">>

\* _write_opts inside _get_help_record
_write_opts(opt, opts) ==
    LET rv == Join(<<", ">>, opts)
        name == IF Truthy(opt.metavar)
                THEN RStrip(LStrip(opt.metavar, {"<", "[", "{", "(", "$"}),
                            {">", "]", "}", ")", "$"})
                ELSE opt.name
    IN  IF ~opt.is_flag /\ ~opt.count THEN rv \o <<" <">> \o name \o <<">">> ELSE rv

\* _get_help_record: <<the option's signature, its help text>>
_get_help_record(ctx, opt) ==
    LET rv == <<_write_opts(opt, opt.opts)>>
              \o (IF opt.secondary_opts # <<>>
                  THEN <<_write_opts(opt, opt.secondary_opts)>> ELSE <<>>)
        out == IF Truthy(opt.help)
               THEN (IF opt.required THEN << <<"**Required** ">> \o opt.help >>
                     ELSE <<opt.help>>)
               ELSE (IF opt.required THEN << <<"**Required**">> >> ELSE <<>>)
        \* opt.show_default; ctx.show_default is None in the contexts made here
        show_default == opt.show_default
        extras ==
            (IF show_default \notin {None, ShowTrue}
             THEN << <<":default: ", BQ, BQ>> \o repr(AnsiSub(show_default))
                        \o <<BQ, BQ>> >>
             ELSE IF show_default = ShowTrue /\ opt.default # None
             THEN << <<":default: ", BQ, BQ>> \o repr(opt.default) \o <<BQ, BQ>> >>
             ELSE <<>>)
            \o (IF opt.choices # None
                THEN << <<":options: ">> \o Join(<<" | ">>, opt.choices) >>
                ELSE <<>>)
    IN  <<Join(<<", ">>, rv),
          Join(<<"\n">>,
               out \o (IF extras # <<>> /\ out # <<>> THEN << <<>> >> ELSE <<>>)
                   \o extras)>>

_format_option(ctx, opt) ==
    LET option_names == Dedup([i \in 1..Len(opt.opts) |-> LStrip(opt.opts[i], {"-"})])
        anchors == Flatten([i \in 1..Len(option_names) |->
                       << <<".. _">> \o _format_command_name(ctx) \o <<"-">>
                              \o option_names[i] \o <<":">>,
                          <<>> >>])
        opt_help == _get_help_record(ctx, opt)
        body == BarLoop(string2lines(AnsiSub(opt_help[2])), FALSE)
    IN  anchors
        \o << <<".. option:: ">> \o opt_help[1] >>
        \o (IF opt_help[2] # <<>>
            THEN << <<>> >> \o [i \in 1..Len(body) |-> _indent(body[i])]
            ELSE <<>>)

\* the function _format_options decorates
_format_options_func(ctx) ==
    LET params == SelectSeq(CommandParams[CtxCommand(ctx)],
                            LAMBDA p : Param[p].kind = "Option" /\ ~Param[p].hidden)
    IN  Flatten([i \in 1..Len(params) |->
                    _format_option(ctx, Param[params[i]]) \o << <<>> >>])

_format_options(ctx, ev) ==
    _process_lines("sphinx-click-process-options", ctx, _format_options_func(ctx), ev)

\* arg.human_readable_name
human_readable_name(arg) == IF Truthy(arg.metavar) THEN arg.metavar ELSE Upper(arg.name)

_format_argument(ctx, arg) ==
    << <<".. _">> \o _format_command_name(ctx) \o <<"-">> \o human_readable_name(arg)
           \o <<":">>,
       <<>>,
       <<".. option:: ">> \o human_readable_name(arg),
       <<>>,
       _indent(<<IF arg.required THEN "Required" ELSE "Optional">> \o <<" argument">>
               \o (IF arg.nargs # 1 THEN <<"(s)">> ELSE <<>>)) >>
    \o (IF Truthy(arg.help)
        THEN << <<>> >>
             \o [i \in 1..Len(_format_help(AnsiSub(arg.help))) |->
                    _indent(_format_help(AnsiSub(arg.help))[i])]
        ELSE <<>>)

\* the function _format_arguments decorates
_format_arguments_func(ctx) ==
    LET params == SelectSeq(CommandParams[CtxCommand(ctx)],
                            LAMBDA p : Param[p].kind = "Argument")
    IN  Flatten([i \in 1..Len(params) |->
                    _format_argument(ctx, Param[params[i]]) \o << <<>> >>])

_format_arguments(ctx, ev) ==
    _process_lines("sphinx-click-process-arguments", ctx, _format_arguments_func(ctx),
                   ev)

\* _format_envvar; value is param.envvar at the time of the call
_format_envvar(ctx, param, value) ==
    LET command_name == _format_command_name(ctx)
        stripped == Dedup([i \in 1..Len(param.opts) |-> LStrip(param.opts[i], {"-"})])
        param_names ==
            IF \A i \in 1..Len(stripped) : Upper(stripped[i]) # Upper(param.name)
            THEN Append(stripped, param.name) ELSE stripped
        param_ref == IF param.kind = "Argument" THEN human_readable_name(param)
                     ELSE param.opts[1]
    IN  Flatten([i \in 1..Len(param_names) |->
            << <<".. _">> \o command_name \o <<"-">> \o param_names[i] \o <<"-">>
                   \o value \o <<":">>,
               <<>> >>])
        \o << <<".. envvar:: ">> \o value,
              <<"   :noindex:">>,
              <<>>,
              _indent(<<"Provide a default for :option:", BQ>> \o param_ref \o <<BQ>>) >>

\* the loop of _format_envvars that gives every parameter without an envvar
\* the name auto_envvar_prefix + "_" + NAME: the envvar attributes after it
_auto_envvars(ctx, ev) ==
    LET auto_envvar_prefix == Last(ctx.chain).auto_envvar_prefix
        own == Range(CommandParams[CtxCommand(ctx)])
    IN  IF auto_envvar_prefix # None
        THEN [p \in DOMAIN ev |->
                 IF p \in own /\ ~Truthy(ev[p])
                 THEN auto_envvar_prefix \o <<"_">> \o Upper(Param[p].name)
                 ELSE ev[p]]
        ELSE ev

\* the function _format_envvars decorates: the lines it yields when the
\* envvar attributes are ev at the call
_format_envvars_func(ctx, ev) ==
    LET auto_envvar_prefix == Last(ctx.chain).auto_envvar_prefix
        ev2 == _auto_envvars(ctx, ev)
        all == CommandParams[CtxCommand(ctx)]
        params == IF auto_envvar_prefix # None THEN all
                  ELSE SelectSeq(all, LAMBDA p : Truthy(ev[p]))
    IN  Flatten([i \in 1..Len(params) |->
                    _format_envvar(ctx, Param[params[i]], ev2[params[i]])
                    \o << <<>> >>])

_format_envvars(ctx, ev) ==
    _process_lines("sphinx-click-process-envars", ctx, _format_envvars_func(ctx, ev),
                   _auto_envvars(ctx, ev))

\* command.get_short_help_str(): short_help, else the first paragraph of help
get_short_help_str(c) ==
    IF Truthy(ShortHelp[c]) THEN Strip(ShortHelp[c])
    ELSE IF Truthy(Help[c]) THEN Strip(Head(SplitOn(Help[c], "\n")))
    ELSE <<>>

_format_subcommand(c) ==
    LET short_help == get_short_help_str(c)
        body == string2lines(short_help)
    IN  << <<".. object:: ">> \o <<c>> >>
        \o (IF short_help # <<>>
            THEN << <<>> >> \o [i \in 1..Len(body) |-> _indent(body[i])]
            ELSE <<>>)

\* the function _format_epilog decorates
_format_epilog_func(ctx) ==
    LET epilog == Epilog[CtxCommand(ctx)]
    IN  IF Truthy(epilog) THEN _format_help(epilog) ELSE <<>>

_format_epilog(ctx, ev) ==
    _process_lines("sphinx-click-process-epilog", ctx, _format_epilog_func(ctx), ev)

RECURSIVE SortByName(_)
\* sorted(names): ascending by NameRank
SortByName(names) ==
    IF names = <<>> THEN <<>>
    ELSE LET k == CHOOSE i \in 1..Len(names) :
                      \A j \in 1..Len(names) :
                          NameRank[names[i]] < NameRank[names[j]]
                          \/ (NameRank[names[i]] = NameRank[names[j]] /\ i <= j)
         IN  <<names[k]>>
             \o SortByName([j \in 1..(Len(names) - 1) |->
                               IF j < k THEN names[j] ELSE names[j + 1]])

\* multi_command.list_commands(ctx), as click and the command module define it
list_commands(c) ==
    IF Kind[c] = "MultiCommand" THEN LazyCommands[c]
    ELSE IF Kind[c] = "Group" THEN SortByName(GroupCommands[c])
    ELSE IF Kind[c] = "CommandCollection"
    THEN SortByName(Dedup(
             Flatten([i \in 1..Len(Sources[c]) |->
                         IF Kind[Sources[c][i]] = "MultiCommand"
                         THEN LazyCommands[Sources[c][i]]
                         ELSE SortByName(GroupCommands[Sources[c][i]])])))
    ELSE <<>>

\* the keys of the dict _get_lazyload_commands builds, in insertion order
_get_lazyload_commands(c) == list_commands(c)

\* the keys of `lookup` in _filter_commands, in insertion order
Lookup(c) ==
    LET lookup == IF Kind[c] = "Group" THEN GroupCommands[c] ELSE <<>>
    IN  IF lookup = <<>> /\ Kind[c] # "Command"
        THEN _get_lazyload_commands(c) ELSE lookup

\* variant of _filter_commands that sorts the selected commands by name
_filter_commands_sorted(ctx, commands) ==
    LET lookup == Lookup(CtxCommand(ctx))
    IN  IF commands = None THEN SortByName(lookup)
        ELSE SortByName(SelectSeq(lookup, LAMBDA c : <<c>> \in Range(commands)))

\* _filter_commands: the names of the commands it returns, in order.
\* commands is None or a list of strings.
_filter_commands(ctx, commands) ==
    LET lookup == Lookup(CtxCommand(ctx))
    IN  IF commands = None THEN SortByName(lookup)
        ELSE LET found == SelectSeq(commands,
                              LAMBDA n : Len(n) = 1 /\ n[1] \in Range(lookup))
             IN  [i \in 1..Len(found) |-> found[i][1]]

\* _format_header: the description, then the anchor and the program line
_format_header(ctx, ev) ==
    LET d == _format_description(ctx, ev)
    IN  Result(d.lines
               \o << <<".. _">> \o _format_command_name(ctx) \o <<":">>,
                     <<>>,
                     <<".. program:: ">> \o command_path(ctx) >>,
               d.events, d.envvar)

Rubric(title) == << <<".. rubric:: ", title>>, <<>> >>

\* variant of _format_subcommand_summary that lists hidden subcommands too
_format_subcommand_summary_all(ctx, commands) ==
    LET command_objs == _filter_commands(ctx, commands)
    IN  (IF command_objs # <<>> THEN Rubric("Commands") ELSE <<>>)
        \o Flatten([i \in 1..Len(command_objs) |->
                        _format_subcommand(command_objs[i]) \o << <<>> >>])

_format_subcommand_summary(ctx, commands) ==
    LET command_objs == _filter_commands(ctx, commands)
        shown == SelectSeq(command_objs, LAMBDA c : ~command_hidden(c))
    IN  (IF command_objs # <<>> THEN Rubric("Commands") ELSE <<>>)
        \o Flatten([i \in 1..Len(shown) |-> _format_subcommand(shown[i]) \o << <<>> >>])

\* variant of SkipsSummary that lets 'none' through to the summary
SkipsSummaryOnlyFull(nested) == nested = NESTED_FULL

\* whether _format_command returns before the sub-command summary
SkipsSummary(nested) == nested \in {NESTED_FULL, NESTED_NONE}

\* whether _format_command emits the header
EmitsHeader(nested, hide_header) == nested = NESTED_NONE \/ ~hide_header

\* variant of _format_command that yields the arguments before the options
_format_command_arguments_first(ctx, nested, commands, hide_header, ev) ==
    IF command_hidden(CtxCommand(ctx)) THEN Result(<<>>, <<>>, ev)
    ELSE
    LET header == IF EmitsHeader(nested, hide_header) THEN _format_header(ctx, ev)
                  ELSE Result(<<>>, <<>>, ev)
        usage == _format_usage(ctx, header.envvar)
        options == _format_options(ctx, usage.envvar)
        arguments == _format_arguments(ctx, options.envvar)
        envvars == _format_envvars(ctx, arguments.envvar)
        epilog == _format_epilog(ctx, envvars.envvar)
    IN  Result(header.lines
               \o usage.lines
               \o (IF arguments.lines # <<>> THEN Rubric("Arguments") ELSE <<>>)
               \o arguments.lines
               \o (IF options.lines # <<>> THEN Rubric("Options") ELSE <<>>)
               \o options.lines
               \o (IF envvars.lines # <<>> THEN Rubric("Environment variables") ELSE <<>>)
               \o envvars.lines
               \o epilog.lines
               \o (IF SkipsSummary(nested) THEN <<>>
                   ELSE _format_subcommand_summary(ctx, commands)),
               header.events \o usage.events \o options.events \o arguments.events
               \o envvars.events \o epilog.events,
               epilog.envvar)

\* _format_command: the parts of a command, in the order the code yields them
_format_command(ctx, nested, commands, hide_header, ev) ==
    IF command_hidden(CtxCommand(ctx)) THEN Result(<<>>, <<>>, ev)
    ELSE
    LET header == IF EmitsHeader(nested, hide_header) THEN _format_header(ctx, ev)
                  ELSE Result(<<>>, <<>>, ev)
        usage == _format_usage(ctx, header.envvar)
        options == _format_options(ctx, usage.envvar)
        arguments == _format_arguments(ctx, options.envvar)
        envvars == _format_envvars(ctx, arguments.envvar)
        epilog == _format_epilog(ctx, envvars.envvar)
    IN  Result(header.lines
               \o usage.lines
               \o (IF options.lines # <<>> THEN Rubric("Options") ELSE <<>>)
               \o options.lines
               \o (IF arguments.lines # <<>> THEN Rubric("Arguments") ELSE <<>>)
               \o arguments.lines
               \o (IF envvars.lines # <<>> THEN Rubric("Environment variables") ELSE <<>>)
               \o envvars.lines
               \o epilog.lines
               \o (IF SkipsSummary(nested) THEN <<>>
                   ELSE _format_subcommand_summary(ctx, commands)),
               header.events \o usage.events \o options.events \o arguments.events
               \o envvars.events \o epilog.events,
               epilog.envvar)

_format_summary(ctx, commands, hide_header, ev) ==
    IF command_hidden(CtxCommand(ctx)) THEN Result(<<>>, <<>>, ev)
    ELSE
    LET header == IF ~hide_header THEN _format_header(ctx, ev) ELSE Result(<<>>, <<>>, ev)
        usage == IF ~hide_header THEN _format_usage(ctx, header.envvar)
                 ELSE Result(<<>>, <<>>, ev)
    IN  Result(header.lines \o usage.lines \o _format_subcommand_summary(ctx, commands),
               header.events \o usage.events,
               usage.envvar)

(***************************************************************************)
(* ClickDirective                                                          *)
(***************************************************************************)
\* what _generate_nodes hands back and leaves behind: the nodes it returns,
\* the events emitted, the post-processor calls made, one record per
\* (recursive) call that returned, and the envvar attributes
Generated(nodes, events, posts, gens, ev) ==
    [nodes |-> nodes, events |-> events, posts |-> posts, gens |-> gens, envvar |-> ev]

Section(name, ctx, body, children) ==
    [type |-> "section", title |-> name, ids |-> command_path(ctx),
     body |-> body, children |-> children]

Paragraph(body) ==
    [type |-> "paragraph", title |-> None, ids |-> None, body |-> body,
     children |-> <<>>]

\* variant of _post_process that passes over an empty node list
_post_process_sections(postprocessor, command, nodes) ==
    IF postprocessor # None /\ nodes # <<>>
    THEN <<[command |-> command, nodes |-> nodes]>> ELSE <<>>

\* _post_process: the calls of the post-processor it makes
_post_process(postprocessor, command, nodes) ==
    IF postprocessor # None THEN <<[command |-> command, nodes |-> nodes]>> ELSE <<>>

\* variant of final_nodes that returns the subcommands' nodes beside the section
final_nodes_flat(name, ctx, nested, hide_header, body, subcommand_nodes) ==
    IF hide_header
    THEN (IF nested = NESTED_NONE \/ nested = NESTED_SHORT
          THEN <<Paragraph(body)>> \o subcommand_nodes
          ELSE subcommand_nodes)
    ELSE <<Section(name, ctx, body, <<>>)>> \o subcommand_nodes

\* the nodes _generate_nodes returns, from the parsed lines and the children's nodes
final_nodes(name, ctx, nested, hide_header, body, subcommand_nodes) ==
    IF hide_header
    THEN (IF nested = NESTED_NONE \/ nested = NESTED_SHORT
          THEN <<Paragraph(body)>> \o subcommand_nodes
          ELSE subcommand_nodes)
    ELSE <<Section(name, ctx, body, subcommand_nodes)>>

\* the value of a one-element set: the name bound to it stands for a value
\* computed once
The(S) == CHOOSE x \in S : TRUE

\* variant of children_hide_header that hands the directive's setting down
children_hide_header_inherited(hide_header) == hide_header

\* the hide_header argument of the calls made for the sources and the
\* subcommands: hiding the header does not propagate to children
children_hide_header(hide_header) == FALSE

\* variant of children_commands that hands the selection down
children_commands_inherited(commands) == commands

\* the commands argument of the calls made for the sources and the
\* subcommands: none is passed, so the default None applies
children_commands(commands) == None

\* variant of subcommand_parent that always takes the current context
subcommand_parent_current(ctx, semantic_group) == ctx

\* the parent of a subcommand's context: the current context, or its parent
\* when the current command is rendered as a source of a CommandCollection
subcommand_parent(ctx, semantic_group) ==
    IF ~semantic_group THEN ctx ELSE CtxParent(ctx)

RECURSIVE _generate_nodes(_, _, _, _, _, _, _, _, _)
RECURSIVE GenerateEach(_, _, _, _, _, _, _, _)

\* the loops over command.sources and over _filter_commands(ctx, commands):
\* _generate_nodes for each name in turn, the results accumulated in acc
GenerateEach(names, parent, nested, commands, semantic_group, hide_header, postprocessor, acc) ==
    IF names = <<>> THEN acc
    ELSE The({GenerateEach(Tail(names), parent, nested, commands, semantic_group,
                           hide_header, postprocessor, next) :
                next \in {Generated(acc.nodes \o g.nodes, acc.events \o g.events,
                                    acc.posts \o g.posts, acc.gens \o g.gens,
                                    g.envvar) :
                            g \in {_generate_nodes(<<Head(names)>>, Head(names), parent,
                                                   nested, commands, semantic_group,
                                                   hide_header, postprocessor,
                                                   acc.envvar)}}})

_generate_nodes(name, command, parent, nested_arg, commands, semantic_group, hide_header, postprocessor, ev) ==
    LET ctx0 == Context(command, name, parent, None)
    IN  IF command_hidden(command)
        THEN Generated(<<>>, <<>>, <<>>,
                       <<[command |-> command, path |-> command_path(ctx0),
                          shown |-> FALSE, nodes |-> <<>>]>>, ev)
        ELSE
        LET complete == nested_arg = NESTED_COMPLETE
            nested == IF complete THEN NESTED_FULL ELSE nested_arg
            hide_current_header == IF complete THEN TRUE ELSE hide_header
            ctx == [ctx0 EXCEPT !.env = TRUE]
            \* the lines of `result`, with the events and the envvars so far
            Lines ==
                The({The({[body |-> summary.lines \o main.lines,
                           start |-> Generated(<<>>, summary.events \o main.events,
                                               <<>>, <<>>, main.envvar)] :
                            main \in {IF semantic_group
                                      THEN _format_description(ctx, summary.envvar)
                                      ELSE _format_command(ctx, nested, commands,
                                                           hide_current_header,
                                                           summary.envvar)}}) :
                       summary \in {IF complete
                                    THEN _format_summary(ctx, commands, hide_header, ev)
                                    ELSE Result(<<>>, <<>>, ev)}})
            \* subcommand_nodes, with what generating them left behind
            Subcommands(start) ==
                IF nested = NESTED_FULL
                THEN (IF Kind[command] = "CommandCollection"
                      THEN GenerateEach(Sources[command], ctx, nested,
                                        children_commands(commands), TRUE,
                                        children_hide_header(hide_header),
                                        postprocessor, start)
                      ELSE GenerateEach(_filter_commands(ctx, commands),
                                        subcommand_parent(ctx, semantic_group),
                                        nested, children_commands(commands), FALSE,
                                        children_hide_header(hide_header),
                                        postprocessor, start))
                ELSE start
            Finish(final, subs) ==
                Generated(final, subs.events,
                          subs.posts \o _post_process(postprocessor, command, final),
                          Append(subs.gens,
                                 [command |-> command, path |-> command_path(ctx),
                                  shown |-> TRUE, nodes |-> final]),
                          subs.envvar)
        IN  The({The({The({Finish(final, subs) :
                             final \in {final_nodes(name, ctx, nested, hide_header,
                                                    lines.body, subs.nodes)}}) :
                        subs \in {Subcommands(lines.start)}}) :
                   lines \in {Lines}})

\* option absent from self.options
Absent == <<"<absent>">>

\* the modules a directive may name: what importing each one does
Modules == [greet |-> "ok", broken |-> "Exception", exiting |-> "SystemExit"]

\* the attributes of the importable module: click commands and a plain function
ModuleAttrs == {"cli", "coll", "world", "process"}

\* s.split(':', 1)
SplitOnce(s, sep) ==
    IF \A i \in 1..Len(s) : s[i] # sep THEN <<s>>
    ELSE LET k == CHOOSE i \in 1..Len(s) :
                      s[i] = sep /\ \A j \in 1..(i - 1) : s[j] # sep
         IN  <<SubSeq(s, 1, k - 1), SubSeq(s, k + 1, Len(s))>>

Loaded(value) == [error |-> None, value |-> value]
Raised(message) == [error |-> message, value |-> None]

\* variant of _load_module that does not import the module
_load_module_unguarded(module_path) ==
    LET parts == SplitOnce(module_path, ":")
    IN  IF Len(parts) # 2 THEN Raised(<<"is not of format \"module:parser\"">>)
        ELSE IF ~(Len(parts[2]) = 1 /\ parts[2][1] \in ModuleAttrs)
        THEN Raised(<<"has no attribute">>)
        ELSE Loaded(parts[2])

\* _load_module: the object loaded (<<its name>>), or the directive error raised
_load_module(module_path) ==
    LET parts == SplitOnce(module_path, ":")
    IN  IF Len(parts) # 2 THEN Raised(<<"is not of format \"module:parser\"">>)
        ELSE LET module_name == parts[1]
                 attr_name == parts[2]
                 imported == Len(module_name) = 1 /\ module_name[1] \in DOMAIN Modules
                             /\ Modules[module_name[1]] = "ok"
             IN  IF ~imported THEN Raised(<<"Failed to import">>)
                 ELSE IF ~(Len(attr_name) = 1 /\ attr_name[1] \in ModuleAttrs)
                 THEN Raised(<<"has no attribute">>)
                 ELSE Loaded(attr_name)

\* the converter of the :nested: option: the value stored, or ValueError
nested(argument) ==
    IF argument \in {NESTED_COMPLETE, NESTED_FULL, NESTED_SHORT, NESTED_NONE, None}
    THEN Loaded(argument)
    ELSE Raised(<<"is not a valid value for ':nested:'">>)

\* what run hands back and leaves behind
Ran(error, g) ==
    [error |-> error, lines |-> <<>>, nodes |-> g.nodes, events |-> g.events,
     posts |-> g.posts, gens |-> g.gens, envvar |-> g.envvar]

Nothing(ev) == Generated(<<>>, <<>>, <<>>, <<>>, ev)

\* variant of MutuallyExclusive that lets every combination through
MutuallyExclusiveNever(show_nested, nested_opt) == FALSE

\* the check of run that :nested: and :show-nested: are not both given
MutuallyExclusive(show_nested, nested_opt) == show_nested /\ nested_opt # None

\* the `commands` list run builds from the :commands: option
CommandsOption(options) ==
    IF options.commands # Absent /\ options.commands # <<>>
    THEN LET parts == SplitOn(options.commands, ",")
         IN  [i \in 1..Len(parts) |-> Strip(parts[i])]
    ELSE None

\* ClickDirective.run; options holds each option's converted value or Absent
run(argument, options, ev) ==
    LET target == _load_module(argument)
        post == IF options.post_process # Absent THEN _load_module(options.post_process)
                ELSE Loaded(None)
        show_nested == options.show_nested
        nested_opt == IF options.nested = Absent THEN None ELSE options.nested
        hide_header == options.hide_header
    IN  IF target.error # None THEN Ran(target.error, Nothing(ev))
        ELSE IF target.value[1] \notin Commands
        THEN Ran(<<"is not click.Command or click.Group">>, Nothing(ev))
        ELSE IF options.prog = Absent THEN Ran(<<":prog: must be specified">>, Nothing(ev))
        ELSE IF post.error # None THEN Ran(post.error, Nothing(ev))
        ELSE IF MutuallyExclusive(show_nested, nested_opt)
        THEN Ran(<<"':nested:' and ':show-nested:' are mutually exclusive">>, Nothing(ev))
        ELSE Ran(None,
                 _generate_nodes(options.prog, target.value[1], NoParent,
                                 IF show_nested THEN NESTED_FULL ELSE nested_opt,
                                 CommandsOption(options), FALSE, hide_header,
                                 post.value, ev))

(***************************************************************************)
(* The inputs tried                                                        *)
(***************************************************************************)
\* Bound of the model: how many commands have their hidden flag set
MaxHidden == 1

\* the strings a commands selection is made of; "hi" names a subcommand of
\* the subgroup hello, "nope" names no command
SelNames == {<<"world">>, <<"hello">>, <<"hi">>, <<"nope">>}

\* the commands selections handed to the formatters, other than None
Selections == UNION {[1..k -> SelNames] : k \in 0..MaxSel}

\* the values of the :commands: option: the names joined by ", "; '' when empty
CommandsValues ==
    {Absent} \cup {Join(<<",", " ">>, sel) : sel \in Selections}

\* self.arguments[0] and :post-process: values
Targets ==
    {<<"greet">>, <<"broken", ":", "cli">>, <<"exiting", ":", "cli">>,
     <<"greet", ":", "nope">>, <<"greet", ":", "process">>,
     <<"greet", ":", "cli">>, <<"greet", ":", "coll">>, <<"greet", ":", "world">>}

GoodTargets ==
    {<<"greet", ":", "cli">>, <<"greet", ":", "coll">>, <<"greet", ":", "world">>}

PostTargets ==
    {Absent, <<"greet">>, <<"broken", ":", "process">>, <<"greet", ":", "nope">>,
     <<"greet", ":", "process">>}

\* the raw values of the :nested: option (None: the option without a value)
NestedArguments ==
    {None, NESTED_COMPLETE, NESTED_FULL, NESTED_SHORT, NESTED_NONE}

\* the directives tried: every way of failing, then every way of rendering
Directives ==
    [argument : Targets, prog : {Absent, <<"cli">>},
     nested : {Absent, NESTED_FULL, <<"bogus">>}, commands : {Absent},
     show_nested : BOOLEAN, hide_header : {FALSE}, post_process : PostTargets]
    \cup
    [argument : GoodTargets, prog : {<<"cli">>},
     nested : {Absent} \cup NestedArguments, commands : CommandsValues,
     show_nested : BOOLEAN, hide_header : BOOLEAN,
     post_process : {Absent, <<"greet", ":", "process">>}]

\* the contexts the formatters are called with directly
CallContexts ==
    {[Context(c, <<c>>, NoParent, p) EXCEPT !.env = e] :
        c \in {"cli", "coll", "hello", "hi", "world"},
        p \in {None, <<"PREFIX">>}, e \in BOOLEAN}

(***************************************************************************)
(* The state machine: one call per behaviour                               *)
(***************************************************************************)
NotCalled ==
    [error |-> None, raised_by |-> None, lines |-> <<>>, nodes |-> <<>>,
     events |-> <<>>, posts |-> <<>>, gens |-> <<>>]

Init ==
    /\ hidden \in {[c \in Commands |-> c \in H] :
                     H \in {S \in SUBSET Hideable : Cardinality(S) <= MaxHidden}}
    /\ envvar = DeclaredEnvvar
    /\ handlers = NoHandlers
    /\ pc = "ready"
    /\ call = [op |-> "none"]
    /\ returned = NotCalled

\* docutils converts the options (option_spec), builds the directive and calls run
Run(d) ==
    /\ pc = "ready"
    /\ LET conv == IF d.nested = Absent THEN Loaded(Absent) ELSE nested(d.nested)
       IN  IF conv.error # None
           THEN /\ returned' = [NotCalled EXCEPT !.error = conv.error,
                                                 !.raised_by = <<"option_spec">>]
                /\ envvar' = envvar
           ELSE \E r \in {run(d.argument, [d EXCEPT !.nested = conv.value], envvar)} :
                    /\ returned' = [error |-> r.error,
                                    raised_by |-> IF r.error # None THEN <<"run">> ELSE None,
                                    lines |-> <<>>, nodes |-> r.nodes,
                                    events |-> r.events, posts |-> r.posts,
                                    gens |-> r.gens]
                    /\ envvar' = r.envvar
    /\ call' = [op |-> "run", directive |-> d]
    /\ pc' = "done"
    /\ UNCHANGED <<hidden, handlers>>

\* list(_format_command(ctx, nested, commands, hide_header))
FormatCommand(ctx, nested_arg, commands, hide_header) ==
    /\ pc = "ready"
    /\ \E r \in {_format_command(ctx, nested_arg, commands, hide_header, envvar)} :
           /\ returned' = [NotCalled EXCEPT !.lines = r.lines, !.events = r.events]
           /\ envvar' = r.envvar
    /\ call' = [op |-> "_format_command", ctx |-> ctx, nested |-> nested_arg,
                commands |-> commands, hide_header |-> hide_header]
    /\ pc' = "done"
    /\ UNCHANGED <<hidden, handlers>>

\* list(_format_summary(ctx, commands, hide_header))
FormatSummary(ctx, commands, hide_header) ==
    /\ pc = "ready"
    /\ \E r \in {_format_summary(ctx, commands, hide_header, envvar)} :
           /\ returned' = [NotCalled EXCEPT !.lines = r.lines, !.events = r.events]
           /\ envvar' = r.envvar
    /\ call' = [op |-> "_format_summary", ctx |-> ctx, commands |-> commands,
                hide_header |-> hide_header]
    /\ pc' = "done"
    /\ UNCHANGED <<hidden, handlers>>

\* one call per behaviour: nothing is enabled once the call has returned
Next ==
    \/ pc = "ready" /\ \E d \in Directives : Run(d)
    \/ pc = "ready" /\ \E ctx \in CallContexts, n \in NestedArguments, sel \in Selections,
                           h \in BOOLEAN : FormatCommand(ctx, n, sel, h)
    \/ pc = "ready" /\ \E ctx \in CallContexts, n \in NestedArguments, h \in BOOLEAN :
                           FormatCommand(ctx, n, None, h)
    \/ pc = "ready" /\ \E ctx \in CallContexts, sel \in Selections, h \in BOOLEAN :
                           FormatSummary(ctx, sel, h)
    \/ pc = "ready" /\ \E ctx \in CallContexts, h \in BOOLEAN : FormatSummary(ctx, None, h)

Spec == Init /\ [][Next]_vars

(***************************************************************************)
(* Properties                                                              *)
(***************************************************************************)
\* the call named op has returned
Called(op) == pc = "done" /\ call.op = op

\* run was entered: docutils converted every option without a ValueError
RunCalled == Called("run") /\ returned.raised_by # <<"option_spec">>

\* what a 'module:attr' path names, read off the path itself
BadFormat(path) == Len(SplitOnce(path, ":")) # 2

ImportFails(path) ==
    /\ ~BadFormat(path)
    /\ LET m == SplitOnce(path, ":")[1]
       IN  ~(Len(m) = 1 /\ m[1] \in DOMAIN Modules /\ Modules[m[1]] = "ok")

AttrMissing(path) ==
    /\ ~BadFormat(path)
    /\ ~ImportFails(path)
    /\ LET a == SplitOnce(path, ":")[2]
       IN  ~(Len(a) = 1 /\ a[1] \in ModuleAttrs)

LoadFails(path) == BadFormat(path) \/ ImportFails(path) \/ AttrMissing(path)

NotCommand(path) == ~LoadFails(path) /\ SplitOnce(path, ":")[2][1] \notin Commands

\* the directive passes every check of run that precedes the one on :show-nested:
ReachesNestedCheck(d) ==
    /\ ~LoadFails(d.argument)
    /\ ~NotCommand(d.argument)
    /\ d.prog # Absent
    /\ d.post_process # Absent => ~LoadFails(d.post_process)

\* C1: formatting only reads the command graph: once _format_command,
\* _format_summary or run (_generate_nodes) has returned, every parameter
\* still has the envvar attribute it was declared with.
C1_FormattingOnlyReads == pc = "done" => envvar = DeclaredEnvvar

\* C2 as stated: run ends in a directive error in exactly three cases: the
\* target module fails to import, the module lacks the attribute, or :nested:
\* is given together with :show-nested:.
C2_ExactlyThreeErrors ==
    RunCalled =>
        LET d == call.directive
        IN  returned.error # None
            <=> \/ ImportFails(d.argument)
                \/ AttrMissing(d.argument)
                \/ (d.show_nested /\ d.nested # Absent)

\* C2 amended: run ends in a directive error exactly when the target or the
\* :post-process: path is not of the form module:attr, names a module that
\* fails to import or an attribute the module lacks, the target is not a click
\* command, :prog: is missing, or :show-nested: comes with a :nested: option
\* that carries a value; otherwise it returns nodes without error.
C2_ErrorCases ==
    RunCalled =>
        LET d == call.directive
        IN  returned.error # None
            <=> \/ LoadFails(d.argument)
                \/ NotCommand(d.argument)
                \/ d.prog = Absent
                \/ (d.post_process # Absent /\ LoadFails(d.post_process))
                \/ (d.show_nested /\ d.nested \notin {Absent, None})

C2_Witness ==
    /\ RunCalled
    /\ returned.error = <<"':nested:' and ':show-nested:' are mutually exclusive">>

\* C3: when importing the target module raises or exits, or the module has no
\* attribute of the name given, run ends with a directive error and has
\* generated no node, emitted no event and called no post-processor.
C3_LoadFailureStopsRun ==
    (RunCalled /\ (ImportFails(call.directive.argument)
                   \/ AttrMissing(call.directive.argument))) =>
        /\ returned.error \in {<<"Failed to import">>, <<"has no attribute">>}
        /\ returned.nodes = <<>>
        /\ returned.events = <<>>
        /\ returned.posts = <<>>
        /\ returned.gens = <<>>

C3_Witness ==
    /\ RunCalled
    /\ call.directive.argument = <<"exiting", ":", "cli">>
    /\ call.directive.post_process # Absent
    /\ returned.error = <<"Failed to import">>

\* C4: a directive with both :nested: and :show-nested: ends in the 'mutually
\* exclusive' error with no nodes, whatever value :nested: carries; with
\* :show-nested: alone the command is rendered as with ':nested: full'.
C4_NestedExcludesShowNested ==
    (RunCalled /\ ReachesNestedCheck(call.directive) /\ call.directive.show_nested) =>
        LET d == call.directive
        IN  IF d.nested # Absent
            THEN /\ returned.error
                      = <<"':nested:' and ':show-nested:' are mutually exclusive">>
                 /\ returned.nodes = <<>>
            ELSE /\ returned.error = None
                 /\ returned.nodes
                      = run(d.argument,
                            [d EXCEPT !.show_nested = FALSE, !.nested = NESTED_FULL],
                            DeclaredEnvvar).nodes

\* the command a directive documents, and the mode it is rendered in
Root(d) == SplitOnce(d.argument, ":")[2][1]

Mode(d) ==
    IF d.show_nested THEN NESTED_FULL
    ELSE IF d.nested = Absent THEN None ELSE d.nested

\* the section nodes among ns
Sections(ns) == SelectSeq(ns, LAMBDA n : n.type = "section")

\* the commands p's subcommand sections are made for
SubcommandsOf(p) ==
    IF Kind[p] = "CommandCollection" THEN Range(Sources[p]) ELSE Range(Lookup(p))

IsSubcommandOf(c, p) == c \in SubcommandsOf(p)

RECURSIVE Below(_)
\* the subcommands of c, theirs, and so on
Below(c) == SubcommandsOf(c) \cup UNION {Below(k) : k \in SubcommandsOf(c)}

\* C5: with a :post-process: callable, each node list _generate_nodes builds
\* for a non-hidden command is handed to the post-processor exactly once,
\* with its command, and a subcommand's list before its parent's.
C5_PostProcessEachOnce ==
    (RunCalled /\ returned.error = None /\ call.directive.post_process # Absent) =>
        LET built == SelectSeq(returned.gens, LAMBDA g : g.shown)
            posts == returned.posts
        IN  /\ posts = [i \in 1..Len(built) |->
                           [command |-> built[i].command, nodes |-> built[i].nodes]]
            /\ posts # <<>> => posts[Len(posts)].nodes = returned.nodes
            /\ \A j \in 1..Len(posts) :
                   LET own == posts[j].nodes
                       inside == IF j = Len(posts) /\ call.directive.hide_header
                                 THEN Sections(own)
                                 ELSE Sections(own[1].children)
                   IN  \A k \in 1..Len(inside) :
                           \E i \in 1..(j - 1) :
                               /\ posts[i].nodes = <<inside[k]>>
                               /\ IsSubcommandOf(posts[i].command, posts[j].command)

C5_Witness ==
    /\ RunCalled
    /\ returned.error = None
    /\ call.directive.post_process # Absent
    /\ Len(returned.posts) >= 4
    /\ \E i \in 1..Len(returned.posts) : returned.posts[i].command = "hi"

\* the names of the '.. object::' entries among lines, in order
ObjectNames(lines) ==
    LET entries == SelectSeq(lines, LAMBDA l : Len(l) = 2 /\ l[1] = ".. object:: ")
    IN  [i \in 1..Len(entries) |-> entries[i][2]]

HasCommandsRubric(lines) == \E i \in 1..Len(lines) : lines[i] = Rubric("Commands")[1]

\* ascending by name
InNameOrder(names) ==
    \A i, j \in 1..Len(names) : i < j => NameRank[names[i]] < NameRank[names[j]]

\* the subcommands of c a selection picks: the names of sel that c has, as
\* sel orders them; every subcommand of c, by name, when sel is None
Selected(c, sel) ==
    LET all == Range(Lookup(c))
    IN  IF sel = None
        THEN CHOOSE s \in [1..Cardinality(all) -> all] : Range(s) = all /\ InNameOrder(s)
        ELSE LET named == SelectSeq(sel, LAMBDA n : Len(n) = 1 /\ n[1] \in all)
             IN  [i \in 1..Len(named) |-> named[i][1]]

Visible(names) == SelectSeq(names, LAMBDA c : ~hidden[c])

\* the lines of a 'Commands' summary listing names
SummaryOf(names) ==
    Rubric("Commands")
    \o Flatten([i \in 1..Len(names) |-> _format_subcommand(names[i]) \o << <<>> >>])

IsSuffix(t, s) == Len(t) <= Len(s) /\ SubSeq(s, Len(s) - Len(t) + 1, Len(s)) = t

\* C6 as stated: _format_command's lines for a non-hidden command hold the
\* 'Commands' summary exactly when nested is neither 'full' nor 'none'.
C6_SummaryUnlessFullOrNone ==
    (Called("_format_command") /\ ~hidden[CtxCommand(call.ctx)]) =>
        (HasCommandsRubric(returned.lines)
            <=> call.nested \notin {NESTED_FULL, NESTED_NONE})

\* C6 amended: for a non-hidden command _format_command ends its lines with
\* the 'Commands' summary (the rubric, then an '.. object::' entry with its
\* short help for each visible selected subcommand) exactly when nested is
\* neither 'full' nor 'none' and the selection picks at least one subcommand;
\* otherwise its lines hold no rubric 'Commands' and no '.. object::' entry.
C6_SummaryWhenSubcommands ==
    (Called("_format_command") /\ ~hidden[CtxCommand(call.ctx)]) =>
        LET picked == Selected(CtxCommand(call.ctx), call.commands)
        IN  IF call.nested \notin {NESTED_FULL, NESTED_NONE} /\ picked # <<>>
            THEN /\ IsSuffix(SummaryOf(Visible(picked)), returned.lines)
                 /\ ObjectNames(returned.lines) = Visible(picked)
                 /\ Cardinality({i \in 1..Len(returned.lines) :
                                    returned.lines[i] = Rubric("Commands")[1]}) = 1
            ELSE /\ ~HasCommandsRubric(returned.lines)
                 /\ ObjectNames(returned.lines) = <<>>

C6_Witness ==
    /\ Called("_format_command")
    /\ CtxCommand(call.ctx) = "cli"
    /\ call.nested = NESTED_SHORT
    /\ call.commands = << <<"hello">>, <<"world">> >>
    /\ ~hidden["world"]
    /\ IsSuffix(SummaryOf(<<"hello", "world">>), returned.lines)

RECURSIVE TitleForest(_)
\* the sections among nodes, each with its title and the sections inside it
TitleForest(ns) ==
    LET sections == Sections(ns)
    IN  [i \in 1..Len(sections) |->
            [title |-> sections[i].title,
             children |-> TitleForest(sections[i].children)]]

RECURSIVE SectionsBelow(_, _)
\* a section for each visible command the selection picks from c (for each
\* visible source of a CommandCollection), holding the sections of all its own
SectionsBelow(c, sel) ==
    LET names == Visible(IF Kind[c] = "CommandCollection" THEN Sources[c]
                         ELSE Selected(c, sel))
    IN  [i \in 1..Len(names) |->
            [title |-> <<names[i]>>, children |-> SectionsBelow(names[i], None)]]

\* C7 as stated: in full mode the nodes are one section for the top-level
\* command holding, nested parent by parent, one section per non-hidden
\* command reachable through non-hidden ancestors; in short and none mode
\* there is no subcommand section.
C7_OneSectionPerCommand ==
    (RunCalled /\ returned.error = None /\ ~hidden[Root(call.directive)]) =>
        LET d == call.directive
            inside == IF Mode(d) = NESTED_FULL THEN SectionsBelow(Root(d), None)
                      ELSE <<>>
        IN  Mode(d) \in {NESTED_FULL, NESTED_SHORT, NESTED_NONE} =>
                TitleForest(returned.nodes)
                    = <<[title |-> d.prog, children |-> inside]>>

\* C7 amended: in full and complete mode the top-level command gets one
\* section unless hide_header is set, and in it (in its place when
\* hide_header is set) come, nested parent by parent, one section for each
\* visible subcommand the commands list picks, as often and in the order it
\* names it, and one for every non-hidden command reachable from those
\* through non-hidden ancestors; in the other modes no subcommand gets a
\* section; a hidden top-level command yields no node.
C7_SectionsPerSelection ==
    (RunCalled /\ returned.error = None) =>
        LET d == call.directive
            inside == IF Mode(d) \in {NESTED_FULL, NESTED_COMPLETE}
                      THEN SectionsBelow(Root(d), CommandsOption(d))
                      ELSE <<>>
        IN  IF hidden[Root(d)] THEN returned.nodes = <<>>
            ELSE TitleForest(returned.nodes)
                    = IF d.hide_header THEN inside
                      ELSE <<[title |-> d.prog, children |-> inside]>>

C7_Witness ==
    /\ RunCalled
    /\ returned.error = None
    /\ Mode(call.directive) = NESTED_FULL
    /\ Root(call.directive) = "cli"
    /\ call.directive.commands = Absent
    /\ ~call.directive.hide_header
    /\ \A c \in Commands : ~hidden[c]
    /\ TitleForest(returned.nodes)
         = <<[title |-> <<"cli">>,
              children |->
                <<[title |-> <<"hello">>,
                   children |-> <<[title |-> <<"bye">>, children |-> <<>>],
                                  [title |-> <<"hi">>, children |-> <<>>]>>],
                  [title |-> <<"world">>, children |-> <<>>]>>]>>

\* C8: for a hidden command _format_command and _format_summary yield no
\* line, and _generate_nodes returns no node, emits no formatter event and
\* does not call the post-processor, for the top-level command as for a
\* subcommand it recurses into.
C8_HiddenCommandYieldsNothing ==
    /\ ((Called("_format_command") \/ Called("_format_summary"))
        /\ hidden[CtxCommand(call.ctx)]) =>
            returned.lines = <<>> /\ returned.events = <<>>
    /\ (RunCalled /\ returned.error = None) =>
        /\ hidden[Root(call.directive)] =>
              returned.nodes = <<>> /\ returned.events = <<>> /\ returned.posts = <<>>
        /\ \A k \in 1..Len(returned.gens) :
              LET g == returned.gens[k]
              IN  hidden[g.command] =>
                    /\ g.nodes = <<>>
                    /\ \A i \in 1..Len(returned.events) : returned.events[i].path # g.path
                    /\ \A i \in 1..Len(returned.posts) :
                           returned.posts[i].command # g.command

C8_Witness ==
    /\ RunCalled
    /\ returned.error = None
    /\ hidden[Root(call.directive)]
    /\ call.directive.post_process # Absent
    /\ Mode(call.directive) = NESTED_FULL
    /\ returned.nodes = <<>>

RECURSIVE AllLines(_)
\* the lines parsed into ns and into the nodes inside them
AllLines(ns) ==
    Flatten([i \in 1..Len(ns) |-> ns[i].body \o AllLines(ns[i].children)])

RECURSIVE AllTitles(_)
\* the titles in a forest of sections
AllTitles(f) == UNION {{f[i].title} \cup AllTitles(f[i].children) : i \in 1..Len(f)}

\* the sections of the subcommands: those inside the top-level command's
\* section, or the returned ones when hide_header leaves that section out
SubcommandSections(d, ns) ==
    LET forest == TitleForest(ns)
    IN  IF d.hide_header THEN forest
        ELSE IF forest = <<>> THEN <<>> ELSE forest[1].children

\* C9: a hidden subcommand is never shown: no 'Commands' summary has an
\* '.. object::' entry for it, and in full mode neither it nor a command
\* below it gets a section, even when the commands selection names it.
C9_HiddenSubcommandNeverShown ==
    pc = "done" =>
        /\ \A c \in Range(ObjectNames(returned.lines \o AllLines(returned.nodes))) :
               ~hidden[c]
        /\ (RunCalled /\ returned.error = None) =>
               LET d == call.directive
                   titles == AllTitles(SubcommandSections(d, returned.nodes))
               IN  \A h \in Below(Root(d)) :
                       hidden[h] => \A c \in {h} \cup Below(h) : <<c>> \notin titles

C9_Witness ==
    /\ RunCalled
    /\ returned.error = None
    /\ Root(call.directive) = "cli"
    /\ hidden["hello"]
    /\ Mode(call.directive) = NESTED_FULL
    /\ call.directive.commands = <<"hello", ",", " ", "world">>
    /\ TitleForest(returned.nodes)
         = <<[title |-> <<"cli">>,
              children |-> <<[title |-> <<"world">>, children |-> <<>>]>>]>>

\* the list a non-empty :commands: value names: its comma separated names
SelectionOf(value) ==
    IF value = Absent THEN None
    ELSE CHOOSE sel \in Selections : Join(<<",", " ">>, sel) = value

\* the subcommands a call shows: the entries of the summary it yields
ShownInSummary == ObjectNames(returned.lines)

\* the subcommands a directive shows in the body of the top-level section
\* and as the sections inside it
ShownInBody == ObjectNames(returned.nodes[1].body)

ShownAsSections ==
    LET f == SubcommandSections(call.directive, returned.nodes)
    IN  [i \in 1..Len(f) |-> f[i].title[1]]

\* what the call made shows of the subcommands a commands selection (or none)
\* picks: the pairs <<the subcommands shown, the subcommands picked>>
ShownAndPicked ==
    (IF /\ Called("_format_command")
        /\ ~hidden[CtxCommand(call.ctx)]
        /\ call.nested \notin {NESTED_FULL, NESTED_NONE}
     THEN {<<ShownInSummary, Selected(CtxCommand(call.ctx), call.commands)>>}
     ELSE {})
    \cup
    (IF Called("_format_summary") /\ ~hidden[CtxCommand(call.ctx)]
     THEN {<<ShownInSummary, Selected(CtxCommand(call.ctx), call.commands)>>}
     ELSE {})
    \cup
    (IF /\ RunCalled
        /\ returned.error = None
        /\ ~hidden[Root(call.directive)]
        /\ call.directive.commands # <<>>
     THEN LET d == call.directive
              picked == Selected(Root(d), SelectionOf(d.commands))
          IN  (IF /\ ~d.hide_header
                  /\ Mode(d) \in {None, NESTED_SHORT, NESTED_COMPLETE}
               THEN {<<ShownInBody, picked>>} ELSE {})
              \cup
              (IF /\ Mode(d) \in {NESTED_FULL, NESTED_COMPLETE}
                  /\ Kind[Root(d)] # "CommandCollection"
               THEN {<<ShownAsSections, picked>>} ELSE {})
     ELSE {})

C11_EmptySelectionSkipsCommands ==
    /\ (Called("_format_command") /\ call.commands = <<>>) =>
           /\ ~HasCommandsRubric(returned.lines)
           /\ ObjectNames(returned.lines) = <<>>
    /\ (RunCalled /\ returned.error = None /\ call.directive.commands = <<>>) =>
           /\ ~HasCommandsRubric(AllLines(returned.nodes))
           /\ ObjectNames(AllLines(returned.nodes)) = <<>>
           /\ SubcommandSections(call.directive, returned.nodes) = <<>>

\* the context run makes for the command a directive documents
RootContext(d) == [Context(Root(d), d.prog, NoParent, None) EXCEPT !.env = TRUE]

\* whether lines hold a line of the header of ctx's command: a line of its
\* description, its anchor or its program line
HasHeaderLine(lines, ctx) ==
    LET header == _format_header(ctx, envvar).lines
    IN  \E i \in 1..Len(lines) : lines[i] # <<>> /\ lines[i] \in Range(header)

\* C12: with hide_header the title and the summary of the top-level command
\* are absent in every nesting mode: _format_command yields no line of the
\* command's header, and the nodes run returns hold neither a section titled
\* with the command nor a paragraph with a line of its header.
C12_HideHeaderDropsTitleAndSummary ==
    /\ (Called("_format_command") /\ call.hide_header) =>
           ~HasHeaderLine(returned.lines, call.ctx)
    /\ (RunCalled /\ returned.error = None /\ call.directive.hide_header) =>
           \A i \in 1..Len(returned.nodes) :
               LET n == returned.nodes[i]
               IN  IF n.type = "section" THEN n.ids # call.directive.prog
                   ELSE ~HasHeaderLine(n.body, RootContext(call.directive))

\* a context whose command is c and whose command path is path
PathContext(c, path) ==
    [chain |-> <<[command |-> c, info_name |-> path, auto_envvar_prefix |-> None]>>,
     env |-> TRUE]

IsPrefix(t, s) == Len(t) <= Len(s) /\ SubSeq(s, 1, Len(t)) = t

\* the runs that render the subcommands: full or complete mode, no error
RendersDescendants ==
    /\ RunCalled
    /\ returned.error = None
    /\ Mode(call.directive) \in {NESTED_FULL, NESTED_COMPLETE}

\* the calls of _generate_nodes made for the descendants that are rendered:
\* all but the last, which is the call for the top-level command
RenderedDescendants ==
    LET gens == returned.gens
    IN  {gens[i] : i \in {j \in 1..(Len(gens) - 1) : gens[j].shown}}

\* g is the call made for a source group of the CommandCollection documented
IsSourceGroup(g) ==
    /\ Kind[Root(call.directive)] = "CommandCollection"
    /\ g.command \in Range(Sources[Root(call.directive)])

\* the nodes of g are one section titled with the command's name
HasTitledSection(g) ==
    /\ Len(g.nodes) = 1
    /\ g.nodes[1].type = "section"
    /\ g.nodes[1].title = <<g.command>>

\* the section of g begins with the command's header
SectionHasHeader(g) ==
    IsPrefix(_format_header(PathContext(g.command, g.path), envvar).lines,
             g.nodes[1].body)

\* C13 as stated: hiding the header does not propagate to children: in full
\* and complete mode every rendered descendant gets its own titled section
\* that includes its header (description, anchor, program line), whether or
\* not hide_header is set.
C13_DescendantsKeepHeader ==
    RendersDescendants =>
        \A g \in RenderedDescendants : HasTitledSection(g) /\ SectionHasHeader(g)

\* C13 amended: in full and complete mode every rendered descendant gets its
\* own titled section, whether or not hide_header is set; the section begins
\* with the descendant's header (description, anchor, program line) unless
\* the descendant is a source group of a CommandCollection, whose section
\* holds its description only.
C13_DescendantsKeepSection ==
    RendersDescendants =>
        \A g \in RenderedDescendants :
            /\ HasTitledSection(g)
            /\ IF IsSourceGroup(g)
               THEN g.nodes[1].body
                      = _format_description(PathContext(g.command, g.path), envvar).lines
               ELSE SectionHasHeader(g)

C13_Witness ==
    /\ RendersDescendants
    /\ call.directive.hide_header
    /\ Root(call.directive) = "cli"
    /\ \A c \in Commands : ~hidden[c]
    /\ Cardinality(RenderedDescendants) = 4
    /\ \E g \in RenderedDescendants :
           /\ g.command = "hi"
           /\ <<".. program:: ", "cli", " ", "hello", " ", "hi">> \in Range(g.nodes[1].body)

\* C14: 'short' is the default nesting mode: a directive with neither
\* :nested: nor :show-nested: returns the nodes the same directive returns
\* with ':nested: short', with and without :hide-header:.
C14_ShortIsDefault ==
    (/\ RunCalled
     /\ returned.error = None
     /\ call.directive.nested = Absent
     /\ ~call.directive.show_nested) =>
        returned.nodes
          = run(call.directive.argument,
                [call.directive EXCEPT !.nested = NESTED_SHORT], DeclaredEnvvar).nodes

\* how often line occurs in lines
Occurrences(lines, line) == Cardinality({i \in 1..Len(lines) : lines[i] = line})

\* the first place of line in lines
IndexOf(lines, line) ==
    CHOOSE i \in 1..Len(lines) : lines[i] = line /\ \A j \in 1..(i - 1) : lines[j] # line

\* a part under its rubric; nothing when the part has no line
UnderRubric(title, part) == IF part = <<>> THEN <<>> ELSE Rubric(title) \o part

\* C15: _format_command yields the parts of a command in a fixed order:
\* description and header, usage, options, arguments, environment variables,
\* epilog, 'Commands' summary; each of the rubrics 'Options', 'Arguments' and
\* 'Environment variables' stands directly before its part and occurs exactly
\* when that part has at least one line.
C15_PartsInFixedOrder ==
    (Called("_format_command") /\ ~hidden[CtxCommand(call.ctx)]) =>
        LET ctx == call.ctx
            ev == DeclaredEnvvar
            header == IF call.nested = NESTED_NONE \/ ~call.hide_header
                      THEN _format_header(ctx, ev).lines ELSE <<>>
            usage == _format_usage(ctx, ev).lines
            options == _format_options(ctx, ev).lines
            arguments == _format_arguments(ctx, ev).lines
            envvars == _format_envvars(ctx, ev).lines
            epilog == _format_epilog(ctx, ev).lines
            summary == IF call.nested \in {NESTED_FULL, NESTED_NONE} THEN <<>>
                       ELSE _format_subcommand_summary(ctx, call.commands)
            Count(title, part) ==
                Occurrences(returned.lines, Rubric(title)[1])
                  = IF part = <<>> THEN 0 ELSE 1
        IN  /\ returned.lines
                 = header \o usage
                   \o UnderRubric("Options", options)
                   \o UnderRubric("Arguments", arguments)
                   \o UnderRubric("Environment variables", envvars)
                   \o epilog \o summary
            /\ Count("Options", options)
            /\ Count("Arguments", arguments)
            /\ Count("Environment variables", envvars)

C15_Witness ==
    /\ Called("_format_command")
    /\ CtxCommand(call.ctx) = "world"
    /\ ~hidden["world"]
    /\ LET lines == returned.lines
           At(line) == IndexOf(lines, line)
       IN  /\ {<<"A world command.">>, <<".. code-block:: shell">>,
               Rubric("Options")[1], Rubric("Arguments")[1],
               Rubric("Environment variables")[1], <<"See also.">>}
                 \subseteq Range(lines)
           /\ At(<<"A world command.">>) < At(<<".. code-block:: shell">>)
           /\ At(<<".. code-block:: shell">>) < At(Rubric("Options")[1])
           /\ At(Rubric("Options")[1]) < At(Rubric("Arguments")[1])
           /\ At(Rubric("Arguments")[1]) < At(Rubric("Environment variables")[1])
           /\ At(Rubric("Environment variables")[1]) < At(<<"See also.">>)

(***************************************************************************)
(* The help formatters on their own: _format_help and _format_option       *)
(* called with every short help text                                       *)
(***************************************************************************)
MaxHelpLen == 6

\* what a help text is made of: a word, a line break, the '\b' marker, a
\* space and a colour escape sequence
HelpTokens == {"a", "\n", BS, " ", "ESC[31m"}

HelpStrings == UNION {[1..k -> HelpTokens] : k \in 0..MaxHelpLen}

\* the option and the context _format_option is called with
HelpOption(h) == [Param["param"] EXCEPT !.help = h]

HelpContext == [Context("world", <<"world">>, NoParent, None) EXCEPT !.env = FALSE]

InitHelp ==
    /\ hidden = [c \in Commands |-> FALSE]
    /\ envvar = DeclaredEnvvar
    /\ handlers = NoHandlers
    /\ pc = "ready"
    /\ call = [op |-> "none"]
    /\ returned = NotCalled

FormatHelp(h) ==
    /\ pc = "ready"
    /\ returned' = [NotCalled EXCEPT !.lines = _format_help(h)]
    /\ call' = [op |-> "_format_help", help_string |-> h]
    /\ pc' = "done"
    /\ UNCHANGED <<hidden, envvar, handlers>>

FormatOption(h) ==
    /\ pc = "ready"
    /\ returned' = [NotCalled EXCEPT !.lines = _format_option(HelpContext, HelpOption(h))]
    /\ call' = [op |-> "_format_option", help_string |-> h]
    /\ pc' = "done"
    /\ UNCHANGED <<hidden, envvar, handlers>>

NextHelp ==
    \/ pc = "ready" /\ \E h \in HelpStrings : FormatHelp(h)
    \/ pc = "ready" /\ \E h \in HelpStrings : FormatOption(h)

SpecHelp == InitHelp /\ [][NextHelp]_vars

\* line i of lines stands in a '\b' block: it is not empty, a '\b' line
\* precedes it, and no empty line lies between the two
InBarBlock(lines, i) ==
    /\ lines[i] # <<>>
    /\ \E k \in 1..(i - 1) :
           lines[k] = <<BS>> /\ \A j \in (k + 1)..(i - 1) : lines[j] # <<>>

\* lines without the '\b' lines, those in a block prefixed with '| '
BarText(lines) ==
    LET kept == SelectSeq([i \in 1..Len(lines) |-> i], LAMBDA i : lines[i] # <<BS>>)
    IN  [n \in 1..Len(kept) |->
            IF InBarBlock(lines, kept[n]) THEN <<"| ">> \o lines[kept[n]]
            ELSE lines[kept[n]]]

\* C16: of the lines of a help text, a line that is only the '\b' marker is
\* dropped, every line after it up to the next empty line is emitted with the
\* prefix '| ', every other line is emitted unchanged, and _format_help ends
\* its output with one empty line; _format_option treats the lines of an
\* option's help the same way, indented under the option.
C16_BarBlocks ==
    /\ Called("_format_help") =>
           returned.lines
             = BarText(string2lines(cleandoc(AnsiSub(call.help_string)))) \o << <<>> >>
    /\ Called("_format_option") =>
           LET opt_help == _get_help_record(HelpContext, HelpOption(call.help_string))
               record == opt_help[2]
               text == BarText(string2lines(AnsiSub(record)))
               k == IndexOf(returned.lines, <<".. option:: ">> \o opt_help[1])
           IN  SubSeq(returned.lines, k + 1, Len(returned.lines))
                 = IF record = <<>> THEN <<>>
                   ELSE << <<>> >> \o [i \in 1..Len(text) |-> _indent(text[i])]

C16_Witness ==
    /\ Called("_format_help")
    /\ call.help_string = <<BS, "\n", "a", "\n", "\n", "a">>
    /\ returned.lines = << <<"| ", "a">>, <<>>, <<"a">>, <<>> >>

\* line holds an ANSI colour escape sequence
HasAnsi(line) == \E i \in 1..Len(line) : line[i] \in ANSI_ESC_SEQ_RE

\* C17: ANSI escape sequences are stripped: no line _format_command yields
\* holds an ANSI colour escape sequence, whatever the help, the epilog, the
\* option help, the choices, the show_default strings and the subcommands of
\* the command carry.
C17_NoAnsiInOutput ==
    Called("_format_command") =>
        \A i \in 1..Len(returned.lines) : ~HasAnsi(returned.lines[i])

\* a CommandCollection rendered in full mode
CollectionInFull ==
    /\ RunCalled
    /\ returned.error = None
    /\ Kind[Root(call.directive)] = "CommandCollection"
    /\ Mode(call.directive) = NESTED_FULL

\* C18: for a CommandCollection rendered in full mode every source group gets
\* a section titled with its name that holds the source's description and
\* nothing else (no usage, options, arguments, environment variables or
\* 'Commands' summary), and every subcommand of a source is rendered with the
\* collection's context as parent: its command path is the collection's path
\* followed by the subcommand's name, without the name of the source.
C18_SourcesAreSemanticGroups ==
    CollectionInFull =>
        LET d == call.directive
        IN  \A g \in RenderedDescendants :
                /\ HasTitledSection(g)
                /\ IF g.command \in Range(Sources[Root(d)])
                   THEN LET c == g.command
                            help == IF Truthy(Help[c]) THEN Help[c] ELSE ShortHelp[c]
                        IN  /\ g.nodes[1].body
                                 = IF Truthy(help) THEN _format_help(help) ELSE <<>>
                            /\ \A i \in 1..Len(g.nodes[1].children) :
                                   g.nodes[1].children[i].ids
                                     = d.prog \o <<" ">> \o g.nodes[1].children[i].title
                   ELSE /\ g.path = d.prog \o <<" ", g.command>>
                        /\ g.nodes[1].ids = g.path
                        /\ <<".. program:: ">> \o g.path \in Range(g.nodes[1].body)

C18_Witness ==
    /\ CollectionInFull
    /\ \A c \in Commands : ~hidden[c]
    /\ LET top == returned.nodes[1]
       IN  /\ top.title = <<"cli">>
           /\ Len(top.children) = 2
           /\ top.children[2].title = <<"hello">>
           /\ top.children[2].body
                = << <<"Greet.">>, <<>>, <<"| ", "one">>, <<"| ", "two">>, <<>> >>
           /\ Len(top.children[2].children) = 2
           /\ top.children[2].children[2].title = <<"hi">>
           /\ top.children[2].children[2].ids = <<"cli", " ", "hi">>

\* the names of the events emitted during the call
EmittedEvents == {returned.events[i].name : i \in 1..Len(returned.events)}

\* C19: the events the formatters emit are the sphinx-click-process-* events
\* setup registers: every name emitted by a run of the directive is a
\* registered one (so the handlers connected to it are called), and a run that
\* formats every part of a command emits every registered event.
C19_EmittedAreRegistered ==
    (RunCalled /\ returned.error = None) =>
        /\ EmittedEvents \subseteq RegisteredEvents
        /\ (~hidden[Root(call.directive)] /\ ~call.directive.hide_header) =>
               RegisteredEvents \subseteq EmittedEvents

(***************************************************************************)
(* The formatters with event handlers connected                            *)
(***************************************************************************)
MaxHandlers == 2

\* the handlers connected by conf.py: at most MaxHandlers of the registered
\* events have one
HandlerSettings ==
    {h \in [RegisteredEvents -> HandlerKinds \cup {"keep"}] :
        Cardinality({e \in RegisteredEvents : h[e] # "keep"}) <= MaxHandlers}

\* the directives that render a command, in every mode
HandlerDirectives ==
    [argument : GoodTargets, prog : {<<"cli">>},
     nested : {Absent} \cup (NestedArguments \ {None}), commands : {Absent},
     show_nested : {FALSE}, hide_header : BOOLEAN, post_process : {Absent}]

InitHandlers ==
    /\ hidden = [c \in Commands |-> FALSE]
    /\ envvar = DeclaredEnvvar
    /\ handlers \in HandlerSettings
    /\ pc = "ready"
    /\ call = [op |-> "none"]
    /\ returned = NotCalled

NextHandlers ==
    \/ pc = "ready" /\ \E d \in HandlerDirectives : Run(d)
    \/ pc = "ready" /\ \E ctx \in CallContexts, n \in NestedArguments, h \in BOOLEAN :
                           FormatCommand(ctx, n, None, h)

SpecHandlers == InitHandlers /\ [][NextHandlers]_vars

\* the list a part contributes: the lines its function yields, as the
\* handlers of its event left them when the context carries the environment
Contributed(event_name, ctx, lines) == IF ctx.env THEN emit(event_name, lines) ELSE lines

\* the lines of a command whose parts contribute their lists as the handlers
\* left them; no handler can be connected to the name _format_envvars emits
CommandLines(ctx, nested_arg, commands, hide_header) ==
    LET description == Contributed("sphinx-click-process-description", ctx,
                                   _format_description_func(ctx))
        header == IF nested_arg = NESTED_NONE \/ ~hide_header
                  THEN description
                       \o << <<".. _">> \o _format_command_name(ctx) \o <<":">>, <<>>,
                             <<".. program:: ">> \o command_path(ctx) >>
                  ELSE <<>>
        usage == Contributed("sphinx-click-process-usage", ctx, _format_usage_func(ctx))
        options == Contributed("sphinx-click-process-options", ctx,
                               _format_options_func(ctx))
        arguments == Contributed("sphinx-click-process-arguments", ctx,
                                 _format_arguments_func(ctx))
        envvars == _format_envvars_func(ctx, DeclaredEnvvar)
        epilog == Contributed("sphinx-click-process-epilog", ctx,
                              _format_epilog_func(ctx))
        summary == IF nested_arg \in {NESTED_FULL, NESTED_NONE} THEN <<>>
                   ELSE _format_subcommand_summary(ctx, commands)
    IN  header \o usage
        \o UnderRubric("Options", options)
        \o UnderRubric("Arguments", arguments)
        \o UnderRubric("Environment variables", envvars)
        \o epilog \o summary

\* C20: the lines a part contributes are the list as the handlers of its
\* event left it: what a handler adds, removes or replaces in place is what
\* reaches the output, the rubric of a part is emitted iff its list is not
\* empty after the handlers ran, and when the context carries no
\* 'sphinx-click-env' entry no event is emitted and the lines are those the
\* part's function yields.
C20_HandlersShapeOutput ==
    /\ Called("_format_command") =>
           /\ returned.lines
                = CommandLines(call.ctx, call.nested, call.commands, call.hide_header)
           /\ ~call.ctx.env => returned.events = <<>>
           /\ call.ctx.env =>
                  {"sphinx-click-process-usage", "sphinx-click-process-options",
                   "sphinx-click-process-arguments", "sphinx-click-process-epilog"}
                    \subseteq EmittedEvents
    /\ (/\ RunCalled
        /\ returned.error = None
        /\ ~call.directive.hide_header
        /\ Mode(call.directive) \in {None, NESTED_SHORT, NESTED_NONE, NESTED_FULL}) =>
           returned.nodes[1].body
             = CommandLines(RootContext(call.directive), Mode(call.directive), None, FALSE)

C20_Witness ==
    /\ Called("_format_command")
    /\ call.ctx.env
    /\ CtxCommand(call.ctx) = "cli"
    /\ handlers["sphinx-click-process-options"] = "clear"
    /\ handlers["sphinx-click-process-arguments"] = "append"
    /\ Rubric("Options")[1] \notin Range(returned.lines)
    /\ \E i \in 1..Len(returned.lines) :
           /\ returned.lines[i] = Rubric("Arguments")[1]
           /\ returned.lines[i + 2] = <<"appended">>

\* the calls of _generate_nodes that rendered a command, the top-level one included
RenderedCommands ==
    {returned.gens[i] : i \in {j \in 1..Len(returned.gens) : returned.gens[j].shown}}

\* how many of the calls that rendered a command were made for the path p
RenderedAt(p) ==
    Cardinality({i \in 1..Len(returned.gens) :
                    returned.gens[i].shown /\ returned.gens[i].path = p})

\* how often the event named name was emitted for the command path p
EmittedFor(name, p) ==
    Cardinality({i \in 1..Len(returned.events) :
                    returned.events[i] = [name |-> name, path |-> p]})

\* C21: with hide_header unset, in every nesting mode the section of each
\* rendered command holds the command's header once and its usage block once,
\* and the usage event is emitted once for each rendering of a command.
C21_HeaderAndUsageOnce ==
    (RunCalled /\ returned.error = None /\ ~call.directive.hide_header) =>
        \A g \in RenderedCommands :
            /\ Len(g.nodes) = 1
            /\ g.nodes[1].type = "section"
            /\ Occurrences(g.nodes[1].body, <<".. program:: ">> \o g.path) = 1
            /\ Occurrences(g.nodes[1].body, <<".. code-block:: shell">>) = 1
            /\ EmittedFor("sphinx-click-process-usage", g.path) = RenderedAt(g.path)

\* part occurs in lines as a run of consecutive lines
HoldsPart(lines, part) ==
    \E k \in 0..(Len(lines) - Len(part)) : SubSeq(lines, k + 1, k + Len(part)) = part

\* the lines parsed into the nodes run returns that are not subcommand sections
TopLevelLines ==
    Flatten([i \in 1..Len(returned.nodes) |->
                IF returned.nodes[i].type = "paragraph" THEN returned.nodes[i].body
                ELSE <<>>])

\* C22: with hide_header set only the title and the header are removed: the
\* usage, options, arguments, environment variables and epilog of the
\* top-level command are part of the nodes run returns, in every nesting
\* mode, an unset :nested:, full and complete included.
C22_HideHeaderKeepsBody ==
    (/\ RunCalled
     /\ returned.error = None
     /\ call.directive.hide_header
     /\ ~hidden[Root(call.directive)]) =>
        LET ctx == RootContext(call.directive)
        IN  /\ HoldsPart(TopLevelLines, _format_usage_func(ctx))
            /\ HoldsPart(TopLevelLines,
                         UnderRubric("Options", _format_options_func(ctx)))
            /\ HoldsPart(TopLevelLines,
                         UnderRubric("Arguments", _format_arguments_func(ctx)))
            /\ HoldsPart(TopLevelLines,
                         UnderRubric("Environment variables",
                                     _format_envvars_func(ctx, DeclaredEnvvar)))
            /\ HoldsPart(TopLevelLines, _format_epilog_func(ctx))

\* C23: the rubric 'Commands' is emitted only when a subcommand entry follows
\* it: in the lines of _format_command and _format_summary every rubric
\* 'Commands' is followed, after an empty line, by an '.. object::' entry, so
\* a group without subcommands, or one whose selected subcommands are all
\* hidden, gets no line of a summary.
C23_RubricOnlyWithEntries ==
    (Called("_format_command") \/ Called("_format_summary")) =>
        \A i \in 1..Len(returned.lines) :
            returned.lines[i] = Rubric("Commands")[1] =>
                /\ i + 2 <= Len(returned.lines)
                /\ returned.lines[i + 1] = <<>>
                /\ returned.lines[i + 2] # <<>>
                /\ returned.lines[i + 2][1] = ".. object:: "

RECURSIVE AllSectionsBelow(_)
\* a section for every subcommand of c (every source of a CommandCollection),
\* sorted by name, holding the sections of all its own
AllSectionsBelow(c) ==
    LET names == IF Kind[c] = "CommandCollection" THEN Sources[c] ELSE Selected(c, None)
    IN  [i \in 1..Len(names) |->
            [title |-> <<names[i]>>, children |-> AllSectionsBelow(names[i])]]

\* the runs that render the subcommands of a command that is not hidden
RendersSubcommands ==
    /\ RendersDescendants
    /\ ~hidden[Root(call.directive)]

\* C24 as stated: the commands selection restricts only the direct
\* subcommands of the top-level command: in full and complete mode the
\* subcommands of a selected subgroup are all rendered, sorted by name, whether
\* or not the selection names them, and the selection is not applied to the
\* sources of a CommandCollection.
C24_SelectionOnlyAtTop ==
    RendersSubcommands =>
        LET d == call.directive
            top == SubcommandSections(d, returned.nodes)
        IN  IF Kind[Root(d)] = "CommandCollection"
            THEN top = AllSectionsBelow(Root(d))
            ELSE \A i \in 1..Len(top) :
                     top[i].children = AllSectionsBelow(top[i].title[1])

\* C24 amended: in full and complete mode the subcommands of a selected
\* subgroup that are not hidden are all rendered, sorted by name, each with
\* its own non-hidden subcommands, whether or not the selection names them,
\* and every non-hidden source of a CommandCollection is rendered whatever
\* the selection is.
C24_SelectionOnlyAtTopVisible ==
    RendersSubcommands =>
        LET d == call.directive
            top == SubcommandSections(d, returned.nodes)
        IN  IF Kind[Root(d)] = "CommandCollection"
            THEN top = SectionsBelow(Root(d), None)
            ELSE \A i \in 1..Len(top) :
                     top[i].children = SectionsBelow(top[i].title[1], None)

C24_Witness ==
    /\ RendersSubcommands
    /\ Root(call.directive) = "cli"
    /\ call.directive.commands = <<"hello", ",", " ", "hi">>
    /\ \A c \in Commands : ~hidden[c]
    /\ SubcommandSections(call.directive, returned.nodes)
         = <<[title |-> <<"hello">>,
              children |-> <<[title |-> <<"bye">>, children |-> <<>>],
                             [title |-> <<"hi">>, children |-> <<>>]>>]>>

====
